---- MODULE Spec2Model ----
(***************************************************************************)
(* Model of airflow/providers/google/cloud/utils/external_token_supplier   *)
(* (cache_token_decorator and ClientCredentialsGrantFlowTokenSupplier).    *)
(*                                                                         *)
(* The decorator is applied once, when the class body is executed, so the  *)
(* closure cells `token` and `expiration_time` exist once for the class:   *)
(* every supplier instance calls the same wrapper and reads and writes the *)
(* same two cells.  A call of wrapper is modelled statement by statement   *)
(* (line 57, the POST of lines 108-134, the assignment of line 60, the     *)
(* validation of lines 61-62, the store of line 68, the return of line 72) *)
(* so that the states between its steps are states of the model.           *)
(*                                                                         *)
(* Python values are records [ty, val]: ty is the Python type, val an      *)
(* integer (for a str, the number that identifies the string).  The        *)
(* monotonic clock and the float expiration_time are counted in whole      *)
(* seconds; float(expires_in) is exact for the integers used here.         *)
(***************************************************************************)
EXTENDS Integers, Sequences, FiniteSets, TLC

\* ---------------------------------------------------------------- bounds

\* Number of calling threads of the host framework.
NumThreads == 2
\* The monotonic clock is observed from 1 up to MaxTime.
MaxTime == 3
\* Number of KeyCloakTokenSupplier.get_subject_token calls in a behaviour.
MaxKeyCloakCalls == 3
Threads == 1..NumThreads
\* Supplier instances of ClientCredentialsGrantFlowTokenSupplier.
Instances == {"A", "B"}

\* ---------------------------------------------------------- Python values

PyStr(n) == [ty |-> "str", val |-> n]
PyInt(n) == [ty |-> "int", val |-> n]
None == [ty |-> "NoneType", val |-> 0]

\* isinstance(v, int)  (bool is a subclass of int)
IsInt(v) == v.ty \in {"int", "bool"}
\* isinstance(v, str)
IsStr(v) == v.ty = "str"

\* ------------------------------------------------------ what the IdP sends

\* access_token values an IdP response carries: "token1", "token2", and
\* the JSON number 7 (not a string).
AccessTokens == {PyStr(1), PyStr(2), PyInt(7)}
\* expires_in values: -1 (the tests' EXPIRED), 0, 1 (a lifetime the clock
\* of the model outlives, as the tests' EXPIRES_IN is for a real clock), and
\* the JSON string "60" (not an integer).
ExpiresIns == {PyInt(-1), PyInt(0), PyInt(1), PyStr(60)}

RequiredKeys == {"access_token", "expires_in"}

\* What one requests.post can meet: conn is FALSE when the POST itself
\* fails (connection refused, timeout, TLS error); otherwise the HTTP
\* status and the body: not JSON ("invalid"), a JSON value that is no
\* object ("array"), or a JSON object with some keys.
Response(conn, status, json, keys, at, ei) ==
    [conn |-> conn, status |-> status, json |-> json, keys |-> keys,
     access_token |-> at, expires_in |-> ei]

Responses ==
    {Response(FALSE, 0, "none", {}, None, None)}
    \cup {Response(TRUE, 500, "invalid", {}, None, None)}
    \cup {Response(TRUE, 200, j, {}, None, None) : j \in {"invalid", "array"}}
    \cup {Response(TRUE, 200, "object", {}, None, None)}
    \cup {Response(TRUE, 200, "object", {"access_token"}, PyStr(1), None)}
    \cup {Response(TRUE, 200, "object", {"expires_in"}, None, PyInt(1))}
    \cup {Response(TRUE, 200, "object", RequiredKeys, a, e) :
             a \in AccessTokens, e \in ExpiresIns}

\* Outcomes of a call: an exception with its message, or a returned value
\* (val, and expires_in for the undecorated method's pair).
Raise(exc, msg) ==
    [kind |-> "raise", exc |-> exc, msg |-> msg, val |-> None, expires_in |-> None]
Return(v, e) ==
    [kind |-> "return", exc |-> "", msg |-> "", val |-> v, expires_in |-> e]
NoResult ==
    [kind |-> "none", exc |-> "", msg |-> "", val |-> None, expires_in |-> None]

\* get_subject_token without the required-fields test of lines 130-132:
\* a missing field is read as None.
get_subject_token_unchecked(r) ==
    IF ~r.conn THEN Raise("ConnectionError", "")
    ELSE IF r.status >= 400 THEN Raise("RefreshError", "HTTPError")
    ELSE IF r.json = "invalid"
         THEN Raise("RefreshError", "Didn't get a json response")
    ELSE IF r.json # "object" THEN Raise("AttributeError", "keys")
    ELSE Return(r.access_token, r.expires_in)

\* The undecorated ClientCredentialsGrantFlowTokenSupplier.get_subject_token
\* on the response r of its POST: the exception it raises or the pair it
\* returns.  requests.post raises a requests ConnectionError that nothing
\* catches; a JSON body that is no object has no keys() (AttributeError).
get_subject_token(r) ==
    IF ~r.conn THEN Raise("ConnectionError", "")
    ELSE IF r.status >= 400 THEN Raise("RefreshError", "HTTPError")
    ELSE IF r.json = "invalid"
         THEN Raise("RefreshError", "Didn't get a json response")
    ELSE IF r.json # "object" THEN Raise("AttributeError", "keys")
    ELSE IF RequiredKeys \ r.keys # {}
         THEN Raise("RefreshError", "No access token returned")
    ELSE Return(r.access_token, r.expires_in)

\* ------------------------------------------------------------ credentials

\* Keyword arguments a caller can pass beyond the named parameters of
\* __init__.  A keyword named client_id or client_secret binds to the
\* named parameter, so it never lands in extra_params_kwargs; any other
\* name does, grant_type included.
ExtraKeys == {"grant_type", "scope"}
ExtraValue == [grant_type |-> "password", scope |-> "openid"]
ExtraParams == {[k \in S |-> ExtraValue[k]] : S \in SUBSET ExtraKeys}
NoExtra == [k \in {} |-> ""]

\* ClientCredentialsGrantFlowTokenSupplier.__init__ for instance i with
\* the extra keyword arguments kw.
Construct(i, kw) ==
    [oidc_issuer_url |-> "https://testidpissuerurl.com",
     client_id |-> "clientid" \o i,
     client_secret |-> "clientsecret" \o i,
     extra_params_kwargs |-> kw]

\* A dict display {**a, **b}: the entries of b come last and win.
Merge(a, b) ==
    [k \in DOMAIN a \cup DOMAIN b |-> IF k \in DOMAIN b THEN b[k] ELSE a[k]]

\* Lines 111-116: the data of the POST made by the supplier c.
PostData(c) ==
    Merge([grant_type |-> "client_credentials",
           client_id |-> c.client_id,
           client_secret |-> c.client_secret],
          c.extra_params_kwargs)

\* ------------------------------------------------------------- KeyCloak

\* What a call of KeyCloakTokenSupplier.get_subject_token does: the POSTs
\* it makes, its outcome, and the two private fields after it.
KeyCloakOutcome(posts, out, cached, expiry) ==
    [posts |-> posts, out |-> out, cached |-> cached, expiry |-> expiry]

\* KeyCloakTokenSupplier.get_subject_token had it used its two fields: a
\* token once fetched is kept and served without a POST.
KeyCloak_get_subject_token_caching(cached, expiry, r) ==
    IF cached # None THEN KeyCloakOutcome(0, Return(cached, None), cached, expiry)
    ELSE IF ~r.conn
         THEN KeyCloakOutcome(1, Raise("ConnectionError", ""), cached, expiry)
    ELSE IF r.status >= 400
         THEN KeyCloakOutcome(1, Raise("HTTPError", ""), cached, expiry)
    ELSE IF r.json = "invalid"
         THEN KeyCloakOutcome(1, Raise("JSONDecodeError", ""), cached, expiry)
    ELSE IF r.json # "object"
         THEN KeyCloakOutcome(1, Raise("TypeError", ""), cached, expiry)
    ELSE IF "access_token" \notin r.keys
         THEN KeyCloakOutcome(1, Raise("KeyError", "access_token"), cached, expiry)
    ELSE KeyCloakOutcome(1, Return(r.access_token, None), r.access_token, expiry)

\* KeyCloakTokenSupplier.get_subject_token (external_token.py, lines
\* 51-65) with the fields _cached_token and _token_expiry as they are and
\* the response r of its POST.  No exception is caught or translated.
KeyCloak_get_subject_token(cached, expiry, r) ==
    IF ~r.conn
    THEN KeyCloakOutcome(1, Raise("ConnectionError", ""), cached, expiry)
    ELSE IF r.status >= 400
         THEN KeyCloakOutcome(1, Raise("HTTPError", ""), cached, expiry)
    ELSE IF r.json = "invalid"
         THEN KeyCloakOutcome(1, Raise("JSONDecodeError", ""), cached, expiry)
    ELSE IF r.json # "object"
         THEN KeyCloakOutcome(1, Raise("TypeError", ""), cached, expiry)
    ELSE IF "access_token" \notin r.keys
         THEN KeyCloakOutcome(1, Raise("KeyError", "access_token"), cached, expiry)
    ELSE KeyCloakOutcome(1, Return(r.access_token, None), cached, expiry)

\* ----------------------------------------------------------------- state

VARIABLES
    token,            \* closure cell of cache_token_decorator (line 43)
    expiration_time,  \* closure cell of cache_token_decorator (line 44)
    now,              \* the reading of time.monotonic()
    pc,               \* per thread: where its call of wrapper stands
    fetched,          \* per thread: what get_subject_token_method gave
    expires_in,       \* per thread: wrapper's local expires_in
    result,           \* per thread: what its call returned or raised
    log,              \* per thread: the log lines of its call
    fetches,          \* per thread: POSTs made by its call
    tokFrom,          \* the fetched pair token was taken from
    expFrom,          \* the fetched pair expiration_time was computed from
    \* History of the calls, recorded in sequential use:
    self,             \* per thread: supplier_instance of its call
    tok0,             \* per thread: token when the call began
    exp0,             \* per thread: expiration_time when the call began
    now0,             \* per thread: the clock read at line 57
    storeAt,          \* per thread: the clock read at line 68
    resp,             \* per thread: the response its POST met
    tokBy,            \* instance whose call wrote token ("": none)
    prev,             \* summary of the call that completed last
    config,           \* per instance: the fields set by __init__
    posted,           \* per thread: the data of the POST of its call
    \* KeyCloakTokenSupplier (one instance):
    kc_cached_token,  \* self._cached_token
    kc_token_expiry,  \* self._token_expiry
    kc_result,        \* what its last call returned or raised
    kc_resp,          \* the response the POST of its last call met
    kc_posts,         \* POSTs made so far
    kc_calls          \* calls made so far

cache == <<token, expiration_time, tokFrom, expFrom>>
locals == <<fetched, expires_in, fetches>>
keycloak == <<kc_cached_token, kc_token_expiry, kc_result, kc_resp, kc_posts,
              kc_calls>>
hist == <<self, tok0, exp0, now0, storeAt, resp, tokBy, prev, config, posted,
          keycloak>>

vars == <<token, expiration_time, now, pc, fetched, expires_in, result, log,
          fetches, tokFrom, expFrom, self, tok0, exp0, now0, storeAt, resp,
          tokBy, prev, config, posted, kc_cached_token, kc_token_expiry,
          kc_result, kc_resp, kc_posts, kc_calls>>

NoResponse == Response(FALSE, 0, "unset", {}, None, None)
NoPrev == [called |-> FALSE, empty |-> FALSE, ok |-> FALSE,
           expires_in |-> None, fetches |-> 0]

\* Line 57 without the expiry test: any cached token is served.
CacheMissTokenOnly(tok, exp, t) == tok = None

\* Line 57 with <= for <: a token is refreshed at the instant it expires.
CacheMissAtExpiry(tok, exp, t) == tok = None \/ exp <= t

\* Line 57: the cache is treated as missing or expired.
CacheMiss(tok, exp, t) == tok = None \/ exp < t

\* Line 68 with a negative expires_in clamped to 0.
ExpirationTimeClamped(clock, e) == clock + (IF e.val < 0 THEN 0 ELSE e.val)

\* Line 68 without the clock: the lifetime stored as if it were an instant.
ExpirationTimeNoClock(clock, e) == e.val

\* Line 68: time.monotonic() + float(expires_in).
ExpirationTime(clock, e) == clock + e.val

\* The state once the class is defined and the suppliers are constructed:
\* everything but the suppliers' credentials.
Started ==
    /\ token = None
    /\ expiration_time = 0
    /\ now = 1
    /\ pc = [t \in Threads |-> "idle"]
    /\ fetched = [t \in Threads |-> NoResult]
    /\ expires_in = [t \in Threads |-> None]
    /\ result = [t \in Threads |-> NoResult]
    /\ log = [t \in Threads |-> <<>>]
    /\ fetches = [t \in Threads |-> 0]
    /\ tokFrom = NoResult
    /\ expFrom = NoResult
    /\ self = [t \in Threads |-> ""]
    /\ tok0 = [t \in Threads |-> None]
    /\ exp0 = [t \in Threads |-> 0]
    /\ now0 = [t \in Threads |-> 0]
    /\ storeAt = [t \in Threads |-> 0]
    /\ resp = [t \in Threads |-> NoResponse]
    /\ tokBy = ""
    /\ prev = NoPrev
    /\ posted = [t \in Threads |-> NoExtra]
    /\ kc_cached_token = None
    /\ kc_token_expiry = None
    /\ kc_result = NoResult
    /\ kc_resp = NoResponse
    /\ kc_posts = 0
    /\ kc_calls = 0

\* The suppliers are constructed as the tests' fixture is, with no extra
\* keyword arguments.
Init ==
    /\ Started
    /\ config = [i \in Instances |-> Construct(i, NoExtra)]

\* The suppliers are constructed with any extra keyword arguments.
InitExtraParams ==
    /\ Started
    /\ config \in {[A |-> Construct("A", NoExtra), B |-> Construct("B", kw)] :
                     kw \in ExtraParams}

\* The clock with a sweeper: a token is dropped from the cache at the
\* instant the clock passes its expiry.
TickEvicting ==
    /\ now < MaxTime
    /\ now' = now + 1
    /\ token' = IF expiration_time < now + 1 THEN None ELSE token
    /\ UNCHANGED <<expiration_time, tokFrom, expFrom, pc, locals, result, log>>

\* time.monotonic() never goes back.
Tick ==
    /\ now < MaxTime
    /\ now' = now + 1
    /\ UNCHANGED <<cache, pc, locals, result, log>>

\* Thread t calls get_subject_token: wrapper runs line 57 (and line 58
\* when the cache is missing or expired).
Call(t) ==
    /\ pc[t] = "idle"
    /\ IF CacheMiss(token, expiration_time, now)
       THEN /\ log' = [log EXCEPT ![t] = <<"OIDC token missing or expired">>]
            /\ pc' = [pc EXCEPT ![t] = "fetch"]
       ELSE /\ log' = [log EXCEPT ![t] = <<>>]
            /\ pc' = [pc EXCEPT ![t] = "return"]
    /\ UNCHANGED <<cache, now, locals, result>>

\* Lines 60 (the call) and 108-134: one POST, which meets the response r
\* that the IdP and the network choose.  A RefreshError is logged and re-raised by lines
\* 64-66; any other exception passes through wrapper.
Fetch(t, r) ==
    /\ pc[t] = "fetch"
    /\ LET out == get_subject_token(r) IN
        /\ fetches' = [fetches EXCEPT ![t] = @ + 1]
        /\ fetched' = [fetched EXCEPT ![t] = out]
        /\ IF out.kind = "return"
           THEN /\ pc' = [pc EXCEPT ![t] = "assign"]
                /\ log' = [log EXCEPT ![t] =
                             Append(@, "Requesting new OIDC token from Keycloak IdP")]
                /\ UNCHANGED result
           ELSE /\ pc' = [pc EXCEPT ![t] = "done"]
                /\ result' = [result EXCEPT ![t] = out]
                /\ log' = [log EXCEPT ![t] =
                             IF out.exc = "RefreshError"
                             THEN @ \o <<"Requesting new OIDC token from Keycloak IdP",
                                         "Failed retrieving new OIDC Token from IdP">>
                             ELSE Append(@, "Requesting new OIDC token from Keycloak IdP")]
    /\ UNCHANGED <<cache, now, expires_in>>

\* Line 60 with line 68 moved up beside it: the expiry is stored with the
\* token, before lines 61-62 have looked at the token.
AssignWithExpiry(t) ==
    /\ pc[t] = "assign"
    /\ token' = fetched[t].val
    /\ tokFrom' = fetched[t]
    /\ expires_in' = [expires_in EXCEPT ![t] = fetched[t].expires_in]
    /\ expiration_time' =
          IF IsInt(fetched[t].expires_in)
          THEN ExpirationTime(now, fetched[t].expires_in)
          ELSE expiration_time
    /\ pc' = [pc EXCEPT ![t] = "validate"]
    /\ UNCHANGED <<expFrom, now, fetched, fetches, result, log>>

\* Line 60, the assignment: the pair is unpacked into the closure cell
\* token and the local expires_in, before anything is validated.
Assign(t) ==
    /\ pc[t] = "assign"
    /\ token' = fetched[t].val
    /\ tokFrom' = fetched[t]
    /\ expires_in' = [expires_in EXCEPT ![t] = fetched[t].expires_in]
    /\ pc' = [pc EXCEPT ![t] = "validate"]
    /\ UNCHANGED <<expiration_time, expFrom, now, fetched, fetches, result, log>>

\* Lines 61-66 with the failure swallowed: whatever token holds is served
\* instead of raising.
ValidateSwallow(t) ==
    /\ pc[t] = "validate"
    /\ IF ~IsInt(expires_in[t]) \/ ~IsStr(token)
       THEN /\ pc' = [pc EXCEPT ![t] = "return"]
            /\ log' = [log EXCEPT ![t] =
                         Append(@, "Failed retrieving new OIDC Token from IdP")]
       ELSE /\ pc' = [pc EXCEPT ![t] = "store"]
            /\ UNCHANGED log
    /\ UNCHANGED <<cache, now, locals, result>>

\* Lines 61-66: RefreshError when expires_in is no int or token no str.
\* The test reads the closure cell token.
Validate(t) ==
    /\ pc[t] = "validate"
    /\ IF ~IsInt(expires_in[t]) \/ ~IsStr(token)
       THEN /\ pc' = [pc EXCEPT ![t] = "done"]
            /\ result' = [result EXCEPT ![t] = Raise("RefreshError", "")]
            /\ log' = [log EXCEPT ![t] =
                         Append(@, "Failed retrieving new OIDC Token from IdP")]
       ELSE /\ pc' = [pc EXCEPT ![t] = "store"]
            /\ UNCHANGED <<result, log>>
    /\ UNCHANGED <<cache, now, locals>>

\* Lines 68-70: expiration_time = time.monotonic() + float(expires_in).
StoreExpiry(t) ==
    /\ pc[t] = "store"
    /\ expiration_time' = ExpirationTime(now, expires_in[t])
    /\ expFrom' = fetched[t]
    /\ log' = [log EXCEPT ![t] = Append(@, "New OIDC token retrieved")]
    /\ pc' = [pc EXCEPT ![t] = "return"]
    /\ UNCHANGED <<token, tokFrom, now, locals, result>>

\* Line 72: return token (the closure cell as it is now).
ReturnToken(t) ==
    /\ pc[t] = "return"
    /\ result' = [result EXCEPT ![t] = Return(token, None)]
    /\ pc' = [pc EXCEPT ![t] = "done"]
    /\ UNCHANGED <<cache, now, locals, log>>

\* The caller of thread t has the outcome of its call; wrapper's frame
\* is gone.
Finish(t) ==
    /\ pc[t] = "done"
    /\ pc' = [pc EXCEPT ![t] = "idle"]
    /\ fetched' = [fetched EXCEPT ![t] = NoResult]
    /\ expires_in' = [expires_in EXCEPT ![t] = None]
    /\ result' = [result EXCEPT ![t] = NoResult]
    /\ log' = [log EXCEPT ![t] = <<>>]
    /\ fetches' = [fetches EXCEPT ![t] = 0]
    /\ UNCHANGED <<cache, now>>

\* What the completed call of thread t looked like.
Summary(t) ==
    [called |-> TRUE,
     empty |-> tok0[t] = None,
     ok |-> result[t].kind = "return",
     expires_in |-> expires_in[t],
     fetches |-> fetches[t]]

\* The history of thread t's call on instance i, written as t takes the
\* step its pc names: the cache and the clock the call met at line 57,
\* the data it posts and the response r its POST met, the clock read at
\* line 68, the instance
\* whose call assigned token at line 60, and the summary of the call when
\* it is over.
Observe(t, i, r) ==
    /\ self' = [self EXCEPT ![t] =
                  IF pc[t] = "idle" THEN i ELSE IF pc[t] = "done" THEN "" ELSE @]
    /\ tok0' = [tok0 EXCEPT ![t] =
                  IF pc[t] = "idle" THEN token ELSE IF pc[t] = "done" THEN None ELSE @]
    /\ exp0' = [exp0 EXCEPT ![t] =
                  IF pc[t] = "idle" THEN expiration_time
                  ELSE IF pc[t] = "done" THEN 0 ELSE @]
    /\ now0' = [now0 EXCEPT ![t] =
                  IF pc[t] = "idle" THEN now ELSE IF pc[t] = "done" THEN 0 ELSE @]
    /\ storeAt' = [storeAt EXCEPT ![t] =
                  IF pc[t] = "store" THEN now ELSE IF pc[t] = "done" THEN 0 ELSE @]
    /\ resp' = [resp EXCEPT ![t] =
                  IF pc[t] = "fetch" THEN r
                  ELSE IF pc[t] = "done" THEN NoResponse ELSE @]
    /\ tokBy' = IF pc[t] = "assign" THEN self[t] ELSE tokBy
    /\ prev' = IF pc[t] = "done" THEN Summary(t) ELSE prev
    /\ posted' = [posted EXCEPT ![t] =
                  IF pc[t] = "fetch" THEN PostData(config[self[t]])
                  ELSE IF pc[t] = "done" THEN NoExtra ELSE @]
    /\ UNCHANGED <<config, keycloak>>

\* A call begins only when no other call is in progress.
SeqCall(t) ==
    /\ \A u \in Threads : pc[u] = "idle"
    /\ Call(t)

\* Sequential use: calls on either instance, one at a time.
Next ==
    \/ \E t \in Threads, i \in Instances : SeqCall(t) /\ Observe(t, i, NoResponse)
    \/ \E t \in Threads, r \in Responses : Fetch(t, r) /\ Observe(t, self[t], r)
    \/ \E t \in Threads : Assign(t) /\ Observe(t, self[t], resp[t])
    \/ \E t \in Threads : Validate(t) /\ Observe(t, self[t], resp[t])
    \/ \E t \in Threads : StoreExpiry(t) /\ Observe(t, self[t], resp[t])
    \/ \E t \in Threads : ReturnToken(t) /\ Observe(t, self[t], resp[t])
    \/ \E t \in Threads : Finish(t) /\ Observe(t, self[t], resp[t])
    \/ Tick /\ UNCHANGED hist

Spec == Init /\ [][Next]_vars

\* Concurrent use: the threads' calls interleave statement by statement.
NextConcurrent ==
    \/ \E t \in Threads : Call(t) /\ UNCHANGED hist
    \/ \E t \in Threads, r \in Responses : Fetch(t, r) /\ UNCHANGED hist
    \/ \E t \in Threads : Assign(t) /\ UNCHANGED hist
    \/ \E t \in Threads : Validate(t) /\ UNCHANGED hist
    \/ \E t \in Threads : StoreExpiry(t) /\ UNCHANGED hist
    \/ \E t \in Threads : ReturnToken(t) /\ UNCHANGED hist
    \/ \E t \in Threads : Finish(t) /\ UNCHANGED hist
    \/ Tick /\ UNCHANGED hist

SpecConcurrent == Init /\ [][NextConcurrent]_vars

\* Sequential use of suppliers constructed with any extra keyword
\* arguments.
SpecExtraParams == InitExtraParams /\ [][Next]_vars

\* One call of KeyCloakTokenSupplier.get_subject_token, whose POST meets
\* the response r.
KeyCloakCall(r) ==
    /\ kc_calls < MaxKeyCloakCalls
    /\ LET o == KeyCloak_get_subject_token(kc_cached_token, kc_token_expiry, r) IN
        /\ kc_calls' = kc_calls + 1
        /\ kc_posts' = kc_posts + o.posts
        /\ kc_resp' = r
        /\ kc_result' = o.out
        /\ kc_cached_token' = o.cached
        /\ kc_token_expiry' = o.expiry
    /\ UNCHANGED <<cache, now, pc, locals, result, log, self, tok0, exp0, now0,
                   storeAt, resp, tokBy, prev, config, posted>>

\* Calls of a KeyCloakTokenSupplier, one at a time, as the clock moves.
NextKeyCloak ==
    \/ \E r \in Responses : KeyCloakCall(r)
    \/ Tick /\ UNCHANGED hist

SpecKeyCloak == Init /\ [][NextKeyCloak]_vars

\* ---------------------------------------------------------------- claims

\* The call of thread t is over, its outcome not yet taken by the caller.
Done(t) == pc[t] = "done"

\* The call of thread t began with a token cached and the clock not past
\* its expiry.
Valid0(t) == tok0[t] # None /\ now0[t] <= exp0[t]

\* The call of thread t fetched a string token and an integer expires_in.
Refreshed(t) ==
    /\ fetched[t].kind = "return"
    /\ IsStr(fetched[t].val)
    /\ IsInt(fetched[t].expires_in)

\* The call of thread t fetched a pair that fails the test of line 61.
Malformed(t) ==
    /\ fetched[t].kind = "return"
    /\ (~IsStr(fetched[t].val) \/ ~IsInt(fetched[t].expires_in))

\* The IdP answered r with an error status, a body that is not JSON, or a
\* JSON object lacking access_token or expires_in.
BadResponse(r) ==
    /\ r.conn
    /\ \/ r.status >= 400
       \/ r.json = "invalid"
       \/ r.json = "object" /\ RequiredKeys \ r.keys # {}

\* C1: in sequential use, a call on one supplier instance never returns a
\* token that a call on another instance fetched.
C1_TokenOfOwnInstance ==
    \A t \in Threads :
        Done(t) /\ result[t].kind = "return" => tokBy = self[t]

\* C2: in sequential use, a call that begins with the cache Valid makes no
\* fetch, returns the cached token, does not raise, and leaves the cached
\* token and expiry as they were.
C2_ValidHit ==
    \A t \in Threads :
        pc[t] # "idle" /\ Valid0(t) =>
            /\ pc[t] \in {"return", "done"}
            /\ fetches[t] = 0
            /\ token = tok0[t]
            /\ expiration_time = exp0[t]
            /\ (Done(t) => result[t] = Return(tok0[t], None))

\* A call that began with the clock exactly at the cached expiry is over.
C2_Witness ==
    \E t \in Threads :
        Done(t) /\ Valid0(t) /\ now0[t] = exp0[t] /\ result[t].kind = "return"

\* C3: in sequential use, when a call fails, the cached token and expiry
\* are what they were before the call.
C3_FailureLeavesCache ==
    \A t \in Threads :
        Done(t) /\ result[t].kind = "raise" =>
            token = tok0[t] /\ expiration_time = exp0[t]

\* C4: in sequential use, when the fetched expires_in is no integer or the
\* fetched access_token no string, the call fails with RefreshError and
\* neither the token slot nor the expiry slot holds a value of that fetch.
C4_MalformedNotStored ==
    \A t \in Threads :
        Done(t) /\ Malformed(t) =>
            /\ result[t].kind = "raise"
            /\ result[t].exc = "RefreshError"
            /\ tokFrom # fetched[t]
            /\ expFrom # fetched[t]

\* C5: every failure of a call is a RefreshError.
C5_OnlyRefreshError ==
    \A t \in Threads :
        Done(t) /\ result[t].kind = "raise" => result[t].exc = "RefreshError"

\* C6: a call fetches exactly when, as it begins, the token is absent or
\* the clock is at or past the cached expiry.
C6_FetchIffDue ==
    \A t \in Threads :
        pc[t] # "idle" =>
            ((pc[t] = "fetch" \/ fetches[t] = 1)
                <=> (tok0[t] = None \/ now0[t] >= exp0[t]))

\* The call before this one began Empty and fetched a negative expires_in
\* with success.
AfterNegativeFirst ==
    /\ prev.called
    /\ prev.empty
    /\ prev.ok
    /\ prev.expires_in.val < 0

\* C7: in sequential use, a call that begins Empty and fetches a negative
\* expires_in with success makes exactly one fetch, and the call right
\* after it logs "OIDC token missing or expired" and makes exactly one
\* fetch.
C7_NegativeExpiryRefetch ==
    \A t \in Threads :
        /\ Done(t) /\ tok0[t] = None /\ result[t].kind = "return"
              /\ expires_in[t].val < 0
           => fetches[t] = 1
        /\ pc[t] # "idle" /\ AfterNegativeFirst =>
              /\ prev.fetches = 1
              /\ log[t] # <<>>
              /\ Head(log[t]) = "OIDC token missing or expired"
              /\ fetches[t] = (IF pc[t] = "fetch" THEN 0 ELSE 1)

\* The call right after an Empty call that fetched a negative expires_in
\* is over.
C7_Witness ==
    \E t \in Threads : Done(t) /\ AfterNegativeFirst /\ fetches[t] = 1

CachedWellFormed == IsStr(tokFrom.val) /\ IsInt(tokFrom.expires_in)

\* C10: under every interleaving of concurrent calls the cached token and
\* the cached expiry come from the same fetch; stated here for the states
\* the claim ends on, those in which every call has completed, and for a
\* cached token that passed validation.
C10_PairAtomic ==
    (\A t \in Threads : pc[t] = "idle") /\ CachedWellFormed
        => tokFrom = expFrom

\* The response r gives a string access_token and an integer expires_in.
GoodResponse(r) ==
    /\ r.conn
    /\ r.status < 400
    /\ r.json = "object"
    /\ RequiredKeys \subseteq r.keys
    /\ IsStr(r.access_token)
    /\ IsInt(r.expires_in)

Quiescent == \A t \in Threads : pc[t] = "idle"

\* C12: in sequential use, between calls, the cached token is absent or
\* the token and the expiry come from the same fetch, the most recent one
\* that gave a pair.
C12_CacheIsLastFetch ==
    Quiescent /\ token # None => tokFrom = expFrom

\* The call before this one made a fetch and failed.
AfterFailedRefresh == prev.called /\ ~prev.ok /\ prev.fetches = 1

\* C13: in sequential use, after a call whose refresh failed the cache is
\* still Empty or Expired however far the clock moves, the next call makes
\* a fetch, and when that fetch succeeds the call returns the fresh token.
C13_RetryUntilSuccess ==
    /\ Quiescent /\ AfterFailedRefresh =>
          token = None \/ expiration_time < now
    /\ \A t \in Threads :
          pc[t] # "idle" /\ AfterFailedRefresh =>
              /\ fetches[t] = (IF pc[t] = "fetch" THEN 0 ELSE 1)
              /\ (Done(t) /\ Refreshed(t) =>
                     result[t] = Return(fetched[t].val, None))

\* The call after a failed validation (its token was assigned at line 60)
\* has refreshed with success.
C13_Witness ==
    \E t \in Threads :
        /\ Done(t)
        /\ AfterFailedRefresh
        /\ prev.expires_in # None
        /\ Refreshed(t)
        /\ result[t].kind = "return"

\* C14, the calls: a call makes at most one fetch, one when it begins
\* with the token absent or the clock past the expiry, none otherwise.
C14_OneFetch ==
    \A t \in Threads :
        /\ fetches[t] <= 1
        /\ pc[t] \notin {"idle", "fetch"} =>
              fetches[t] = (IF tok0[t] = None \/ exp0[t] < now0[t] THEN 1 ELSE 0)

\* C14, the cache: token and expiration_time change only in a step of a
\* call that has made its fetch.
C14_OnlyCallsWrite ==
    <<token, expiration_time>>' # <<token, expiration_time>> =>
        \E t \in Threads :
            /\ pc[t] \in {"assign", "store"}
            /\ pc'[t] # pc[t]
            /\ fetches[t] = 1

\* C14: in sequential use, every call makes at most one fetch (one when it
\* finds the cache Empty or Expired, none when Valid, no retry), and the
\* cached token and expiry change only inside such a call, never by the
\* passage of time.
C14_OneFetchNoBackground == []C14_OneFetch /\ [][C14_OnlyCallsWrite]_vars

\* A call has failed after its one fetch, and the clock has moved on.
C14_Witness ==
    \E t \in Threads :
        /\ Done(t)
        /\ fetches[t] = 1
        /\ result[t].kind = "raise"
        /\ now > now0[t]

\* C15: under every interleaving, a value a call returns is a string
\* token.
C15_ReturnsValidated ==
    \A t \in Threads :
        Done(t) /\ result[t].kind = "return" => IsStr(result[t].val)

\* C17: in sequential use, a value a call returns is the string token of
\* a pair that passed validation: the pair the expiry was computed from.
C17_NeverServesRejected ==
    \A t \in Threads :
        Done(t) /\ result[t].kind = "return" =>
            /\ IsStr(result[t].val)
            /\ IsInt(tokFrom.expires_in)
            /\ tokFrom = expFrom
            /\ result[t].val = expFrom.val

\* A call returns a token after the call before it failed validation with
\* its token already assigned.
C17_Witness ==
    \E t \in Threads :
        /\ Done(t)
        /\ result[t].kind = "return"
        /\ AfterFailedRefresh
        /\ prev.expires_in # None

\* C16: the data of every POST has grant_type = client_credentials, the
\* client_id and client_secret of the supplier, and every entry of its
\* extra parameters.
C16_PostBody ==
    \A t \in Threads :
        fetches[t] = 1 =>
            LET c == config[self[t]] IN
            /\ posted[t]["grant_type"] = "client_credentials"
            /\ posted[t]["client_id"] = c.client_id
            /\ posted[t]["client_secret"] = c.client_secret
            /\ \A k \in DOMAIN c.extra_params_kwargs :
                  posted[t][k] = c.extra_params_kwargs[k]

\* The response r carries an access_token.
HasAccessToken(r) ==
    r.conn /\ r.status < 400 /\ r.json = "object" /\ "access_token" \in r.keys

\* C18: after any sequence of calls of a KeyCloakTokenSupplier, there
\* have been as many POSTs as calls, the last call returned the
\* access_token of its own response, and _cached_token and _token_expiry
\* are None.
C18_KeyCloakNeverCaches ==
    /\ kc_posts = kc_calls
    /\ kc_cached_token = None
    /\ kc_token_expiry = None
    /\ kc_calls > 0 /\ HasAccessToken(kc_resp) =>
          kc_result = Return(kc_resp.access_token, None)

\* A call later than the first has returned a token.
C18_Witness ==
    /\ kc_calls >= 2
    /\ kc_result.kind = "return"
    /\ IsStr(kc_result.val)

====
